---- MODULE Spec2Model ----
(***************************************************************************)
(* Conversation-state and tool-call orchestration of the Joinly meeting    *)
(* clients: the MeetingAgent class (src/unnamed/part_002) and the debounce *)
(* client (src/client.ts, src/unnamed/part_000).                           *)
(*                                                                         *)
(* A message of the log is a record                                        *)
(*   role  : "system" | "user" | "assistant" | "tool"                      *)
(*   calls : the ids of message.tool_calls, in order (<<>>: field absent)  *)
(*   id    : message.tool_call_id of a tool message (0 otherwise)          *)
(*   segs  : the transcript indices a user message was built from          *)
(***************************************************************************)
EXTENDS Integers, Sequences, FiniteSets, Bags

VARIABLES
    variant,    \* which entry script runs: "agent", "client" or "store"
    messages,   \* this.messages (part_002:26) / messages (client.ts:47)
    before,     \* store harness: the log the last operation was applied to
    op,         \* store harness: the last operation applied
    valid,      \* store harness: the last result of validateMessages()
    transcript, \* the live transcript held by the server: a sequence of segments
    lastProcessedTime,  \* MeetingAgent.lastProcessedTime (part_002:25)
    pollingInterval,    \* TRUE while the setInterval poll timer is armed
    handlers,   \* bag of the poll handlers suspended at an await
    nextId,     \* the next tool_call id the model endpoint hands out
    submitted,  \* the message list of the most recent model request
    returned,   \* per segment: how many polls returned it as new
    seen,       \* the longest transcript snapshot a poll handler has processed
    events,     \* what the last step did (observations for the properties)
    process,    \* "running" until process.exit
    signals,    \* the number of interrupt signals received
    lifecycle,  \* started: the poll timer was armed once; farewell, leave and
                \* close: how often the farewell speak_text, leave_meeting and
                \* the connection close were issued; onclose: the transport
                \* close events delivered; main: the await main() of the
                \* agent is suspended at; connected, listed, joined, greeted:
                \* the startup calls of the agent that have returned
    lastSegmentCount,   \* client.ts:148
    debounceTimer,      \* client.ts:48: 0 for null, else the handle of a timer
    timers,     \* the runtime's pending setTimeout timers: [id, remaining]
    fired,      \* the handles of the debounce timers that fired
    superseded  \* the handles of the timers whose arrival was followed by
                \* another arrival less than DEBOUNCE_DELAY later

storeVars == <<before, op, valid>>
agentVars == <<lastProcessedTime, nextId, submitted>>
clientVars == <<lastSegmentCount, debounceTimer, timers, fired, superseded>>
vars == <<variant, messages, before, op, valid, transcript, lastProcessedTime,
          pollingInterval, handlers, nextId, submitted, returned, seen, events,
          process, signals, lifecycle, lastSegmentCount, debounceTimer, timers, fired, superseded>>

----------------------------------------------------------------------------
(* Messages *)

SystemTurn == [role |-> "system", calls |-> <<>>, id |-> 0, segs |-> <<>>]
UserTurn(segs) == [role |-> "user", calls |-> <<>>, id |-> 0, segs |-> segs]
AssistantTurn(calls) == [role |-> "assistant", calls |-> calls, id |-> 0, segs |-> <<>>]
ToolResultTurn(id) == [role |-> "tool", calls |-> <<>>, id |-> id, segs |-> <<>>]

\* prevMessage.role === "assistant" && prevMessage.tool_calls &&
\* prevMessage.tool_calls.find(call => call.id === message.tool_call_id)
MatchingCall(prev, msg) ==
    /\ prev.role = "assistant"
    /\ prev.calls # <<>>
    /\ \E c \in 1..Len(prev.calls) : prev.calls[c] = msg.id

----------------------------------------------------------------------------
(* Conversation store: validate, repair, truncate (part_002:179-285) *)

\* The backward scan shared by validateMessages and the orphan filter: from
\* index j down to the start, a matching assistant message is looked for and
\* the scan stops after a user message.
\* Mutant: the scan does not stop at a user message.
RECURSIVE ScanBackPastUsers(_, _, _)
ScanBackPastUsers(log, i, j) ==
    IF j < 1 THEN FALSE
    ELSE IF MatchingCall(log[j], log[i]) THEN TRUE
    ELSE ScanBackPastUsers(log, i, j - 1)

RECURSIVE ScanBack(_, _, _)
ScanBack(log, i, j) ==
    IF j < 1 THEN FALSE
    ELSE IF MatchingCall(log[j], log[i]) THEN TRUE
    ELSE IF log[j].role = "user" THEN FALSE
    ELSE ScanBack(log, i, j - 1)

\* Mutant: only the matching id is looked for, anywhere before the result.
validateMessagesAnywhere(log) ==
    \A i \in 1..Len(log) :
        log[i].role = "tool" => \E j \in 1..(i - 1) : MatchingCall(log[j], log[i])

validateMessages(log) ==
    \A i \in 1..Len(log) : log[i].role = "tool" => ScanBack(log, i, i - 1)

RECURSIVE FilterFrom(_, _)
FilterFrom(log, i) ==
    IF i > Len(log) THEN <<>>
    ELSE (IF log[i].role = "tool" /\ ~ScanBack(log, i, i - 1)
          THEN <<>> ELSE <<log[i]>>) \o FilterFrom(log, i + 1)

\* Mutant: the filter keeps every message.
OrphanFilterKeepsAll(log) == log

\* this.messages.filter(...) of makeOpenAIRequest
OrphanFilter(log) == FilterFrom(log, 1)

\* The log makeOpenAIRequest leaves in this.messages and hands to the endpoint.
RepairedLog(log) == IF validateMessages(log) THEN log ELSE OrphanFilter(log)

KeepLast == 14
TruncateLimit == 15

\* Mutant: the loop steps forward past a tool result instead of backward.
RECURSIVE SafeIndexMovesLater(_, _)
SafeIndexMovesLater(keep, t) ==
    IF t > 0 /\ t < Len(keep)
    THEN IF keep[t + 1].role = "tool" \/ Len(keep[t].calls) > 0
         THEN SafeIndexMovesLater(keep, t + 1)
         ELSE t
    ELSE t

\* The while loop of truncateMessages over messagesToKeep (0-based index t).
RECURSIVE SafeIndex(_, _)
SafeIndex(keep, t) ==
    IF t > 0 /\ t < Len(keep)
    THEN IF keep[t + 1].role = "tool" \/ Len(keep[t].calls) > 0
         THEN SafeIndex(keep, t - 1)
         ELSE t
    ELSE t

Max(a, b) == IF a >= b THEN a ELSE b

\* Mutant: the system message is not put back in front of the kept suffix.
truncateMessagesDropsSystem(log) ==
    IF Len(log) <= TruncateLimit THEN log
    ELSE LET keep == Tail(log)
             t == SafeIndex(keep, Len(keep) - KeepLast)
         IN  SubSeq(keep, Max(0, t) + 1, Len(keep))

truncateMessages(log) ==
    IF Len(log) <= TruncateLimit THEN log
    ELSE LET keep == Tail(log)
             t == SafeIndex(keep, Len(keep) - KeepLast)
         IN  <<log[1]>> \o SubSeq(keep, Max(0, t) + 1, Len(keep))

----------------------------------------------------------------------------
(* Store harness: the three operations applied to bounded logs *)

MaxWindow == 4
MaxIds == 2

Alphabet ==
    {UserTurn(<<>>), AssistantTurn(<<>>)}
      \cup {AssistantTurn(<<a>>) : a \in 1..MaxIds}
      \cup {AssistantTurn(<<a, b>>) : a \in 1..MaxIds, b \in 1..MaxIds}
      \cup {ToolResultTurn(a) : a \in 1..MaxIds}

Pad(n) == [i \in 1..n |-> UserTurn(<<>>)]

Windows == UNION {[1..n -> Alphabet] : n \in 0..MaxWindow}

\* Short logs, and long ones whose naive cut point falls inside the window.
StoreLogs ==
    {<<SystemTurn>> \o w \o Pad(s) :
        w \in Windows, s \in {0, KeepLast - 2, KeepLast - 1}}

MaxSegments == 3

InitIdle ==
    /\ transcript = <<>>
    /\ lastProcessedTime = 0
    /\ pollingInterval = FALSE
    /\ handlers = EmptyBag
    /\ nextId = 1
    /\ submitted = <<>>
    /\ returned = [i \in 1..MaxSegments |-> 0]
    /\ seen = 0
    /\ events = {}
    /\ process = "running"
    /\ signals = 0
    /\ lifecycle = [started |-> FALSE, farewell |-> 0, leave |-> 0, close |-> 0, onclose |-> 0,
                    main |-> "connect", connected |-> FALSE, listed |-> FALSE,
                    joined |-> FALSE, greeted |-> FALSE]
    /\ lastSegmentCount = 0
    /\ debounceTimer = 0
    /\ timers = {}
    /\ fired = {}
    /\ superseded = {}

InitStore ==
    /\ variant = "store"
    /\ messages \in StoreLogs
    /\ before = messages
    /\ op = "none"
    /\ valid = TRUE
    /\ InitIdle

idleVars == <<transcript, lastProcessedTime, pollingInterval, handlers, nextId,
              submitted, returned, seen, events, process, signals, lifecycle, clientVars>>

StoreValidate ==
    /\ variant = "store"
    /\ op' = "validate"
    /\ valid' = validateMessages(messages)
    /\ before' = messages
    /\ UNCHANGED <<variant, messages, idleVars>>

StoreRepair ==
    /\ variant = "store"
    /\ op' = "repair"
    /\ before' = messages
    /\ messages' = OrphanFilter(messages)
    /\ valid' = validateMessages(messages')
    /\ UNCHANGED <<variant, idleVars>>

StoreTruncate ==
    /\ variant = "store"
    /\ op' = "truncate"
    /\ before' = messages
    /\ messages' = truncateMessages(messages)
    /\ valid' = validateMessages(messages')
    /\ UNCHANGED <<variant, idleVars>>

NextStore == StoreValidate \/ StoreRepair \/ StoreTruncate

SpecStore == InitStore /\ [][NextStore]_vars

----------------------------------------------------------------------------
(* The transcript source *)

MaxHandlers == 2
MaxCalls == 2
MaxToolIds == 4

MaxOdd == 1
MaxCloseEvents == 1
MaxSignals == 2
MaxInterruptedSegments == 2

\* The segments that are blank or end when their predecessor ends.
OddSegments ==
    Cardinality({i \in 1..Len(transcript) :
        transcript[i].blank \/ (i > 1 /\ transcript[i].end = transcript[i - 1].end)})

\* A session that is interrupted or loses its connection is followed for
\* MaxInterruptedSegments segments.
Interrupted == signals > 0 \/ lifecycle.onclose > 0

LastEnd == IF transcript = <<>> THEN 0 ELSE transcript[Len(transcript)].end

\* Somebody speaks: the server appends a segment. End times never decrease;
\* a segment may carry only white space (blank). Only the agent's cursor
\* reads end and text, so only its transcripts vary in them.
Speak ==
    /\ variant \in {"agent", "client"}
    /\ process = "running"
    /\ Len(transcript) < (IF Interrupted THEN MaxInterruptedSegments ELSE MaxSegments)
    /\ \E e \in {LastEnd, LastEnd + 1}, b \in BOOLEAN :
          /\ e > 0
          /\ (e = LastEnd \/ b) => (variant = "agent" /\ OddSegments < MaxOdd)
          /\ transcript' = Append(transcript, [end |-> e, blank |-> b])
    /\ events' = {}
    /\ UNCHANGED <<variant, process, signals, lifecycle, clientVars, messages, storeVars, agentVars, pollingInterval,
                   handlers, returned, seen>>

----------------------------------------------------------------------------
(* MeetingAgent (src/unnamed/part_002) *)

InitAgent ==
    /\ variant = "agent"
    /\ process = "running"
    /\ messages = <<SystemTurn>>
    /\ before = <<>>
    /\ op = "none"
    /\ valid = TRUE
    /\ InitIdle

\* How often the driver of a cycle called speak_text with text of the model:
\* never, once, or more than once.
SpeakCount(n) == IF n = 0 THEN "spoke0" ELSE IF n = 1 THEN "spoke1" ELSE "spokeMany"

Handler(pc, from, calls, k, requests, rolesOk) ==
    [pc |-> pc, from |-> from, calls |-> calls, k |-> k,
     requests |-> requests, rolesOk |-> rolesOk]

Replace(h, g) == (handlers (-) SetToBag({h})) (+) SetToBag({g})
Finish(h) == handlers (-) SetToBag({h})

\* The rule of the chat-completions endpoint behind the error text the reset
\* looks for ("messages with role 'tool' must be a response to a preceding
\* message with 'tool_calls'"): every run of tool messages directly follows
\* an assistant message that requested each of them.
EndpointAcceptsRoles(list) ==
    \A i \in 1..Len(list) :
        list[i].role = "tool" =>
            \E j \in 1..(i - 1) :
                /\ MatchingCall(list[j], list[i])
                /\ \A k \in (j + 1)..(i - 1) : list[k].role = "tool"

\* The positions of a poll callback of the agent: it awaits everything
\* processNewSegments does.
PollPcs == {"read", "model", "tool", "followup", "tool2"}

\* The poll callbacks of the agent that have not returned yet.
PollsRunning ==
    BagCardinality([h \in {x \in BagToSet(handlers) : x.pc \in PollPcs} |-> handlers[h]])

\* main awaits connect() and joinMeeting(): mcp.connect returns and listTools
\* is issued; listTools returns and join_meeting is issued; join_meeting
\* returns and the greeting speak_text is issued; the greeting returns and
\* subscribeResource is issued.
MainStep ==
    /\ variant = "agent"
    /\ process = "running"
    /\ lifecycle.main \in {"connect", "listTools", "join", "greet"}
    /\ lifecycle' =
          CASE lifecycle.main = "connect" ->
                  [lifecycle EXCEPT !.main = "listTools", !.connected = TRUE]
            [] lifecycle.main = "listTools" ->
                  [lifecycle EXCEPT !.main = "join", !.listed = TRUE]
            [] lifecycle.main = "join" ->
                  [lifecycle EXCEPT !.main = "greet", !.joined = TRUE]
            [] lifecycle.main = "greet" ->
                  [lifecycle EXCEPT !.main = "subscribe", !.greeted = TRUE]
    /\ events' = {}
    /\ UNCHANGED <<variant, process, signals, clientVars, messages, storeVars, agentVars,
                   transcript, pollingInterval, handlers, returned, seen>>

\* An awaited startup call rejects: the catch of main calls cleanup, which
\* finds no poll timer to clear and issues mcp.close; process.exit(1) runs
\* once the close returns.
MainFails ==
    /\ variant = "agent"
    /\ process = "running"
    /\ lifecycle.main \in {"connect", "listTools", "join", "greet", "subscribe"}
    /\ lifecycle' = [lifecycle EXCEPT !.main = "failed", !.close = @ + 1]
    /\ handlers' = handlers (+) SetToBag({[pc |-> "close", requests |-> 0]})
    /\ events' = {}
    /\ UNCHANGED <<variant, process, signals, clientVars, messages, storeVars, agentVars,
                   transcript, pollingInterval, returned, seen>>

\* subscribeResource returns and joinMeeting calls startTranscriptMonitoring:
\* the poll timer is armed.
startTranscriptMonitoring ==
    /\ variant = "agent"
    /\ process = "running"
    /\ lifecycle.main = "subscribe"
    /\ ~lifecycle.started
    /\ lifecycle' = [lifecycle EXCEPT !.started = TRUE, !.main = "active"]
    /\ pollingInterval' = TRUE
    /\ events' = {}
    /\ UNCHANGED <<variant, process, signals, clientVars, messages, storeVars, agentVars, transcript,
                   handlers, returned, seen>>

\* Mutant: a tick is skipped while an earlier callback has not returned.
PollTickWhenIdle ==
    /\ variant = "agent"
    /\ process = "running"
    /\ pollingInterval
    /\ PollsRunning = 0
    /\ handlers' = handlers (+) SetToBag({Handler("read", Len(transcript), <<>>, 0, 0, TRUE)})
    /\ events' = {}
    /\ UNCHANGED <<variant, process, signals, lifecycle, clientVars, messages, storeVars,
                   agentVars, transcript, pollingInterval, returned, seen>>

\* The setInterval callback starts: readResource is issued and awaited.
PollTick ==
    /\ variant = "agent"
    /\ process = "running"
    /\ pollingInterval
    /\ PollsRunning < MaxHandlers
    /\ handlers' = handlers (+) SetToBag({Handler("read", Len(transcript), <<>>, 0, 0, TRUE)})
    /\ events' = {}
    /\ UNCHANGED <<variant, process, signals, lifecycle, clientVars, messages, storeVars, agentVars, transcript,
                   pollingInterval, returned, seen>>

\* Mutant: the cursor comparison is >= instead of >.
NewSegmentsInclusive(n) ==
    SelectSeq([i \in 1..n |-> i],
              LAMBDA i : transcript[i].end >= lastProcessedTime /\ ~transcript[i].blank)

\* segments.filter(seg => seg.end > lastProcessedTime && seg.text.trim().length > 0)
NewSegments(n) ==
    SelectSeq([i \in 1..n |-> i],
              LAMBDA i : transcript[i].end > lastProcessedTime /\ ~transcript[i].blank)

RECURSIVE MaxEnd(_)
MaxEnd(idx) ==
    IF Len(idx) = 1 THEN transcript[idx[1]].end
    ELSE Max(transcript[idx[1]].end, MaxEnd(Tail(idx)))

Bump(f, idx) ==
    [i \in DOMAIN f |-> IF \E n \in 1..Len(idx) : idx[n] = i THEN f[i] + 1 ELSE f[i]]

\* The request makeOpenAIRequest issues on `log`: repair when validation fails,
\* then hand this.messages to the endpoint.
RequestOn(log) == RepairedLog(log)

\* readResource rejects: the catch of the poll callback swallows it.
ReadFailsOn(h) ==
    /\ variant = "agent"
    /\ process = "running"
    /\ h.pc = "read"
    /\ handlers' = Finish(h)
    /\ events' = {}
    /\ UNCHANGED <<variant, process, signals, lifecycle, clientVars, messages, storeVars, agentVars, transcript,
                   pollingInterval, returned, seen>>

\* Mutant: a payload that cannot be used makes the callback start over from
\* the beginning of the transcript.
ReadMalformedRewinds(h) ==
    /\ variant = "agent"
    /\ process = "running"
    /\ h.pc = "read"
    /\ handlers' = Finish(h)
    /\ lastProcessedTime' = 0
    /\ events' = {"malformed"}
    /\ UNCHANGED <<variant, process, signals, lifecycle, clientVars, messages, storeVars,
                   nextId, submitted, transcript, pollingInterval, returned, seen>>

\* readResource returns a payload that is no transcript: its text is not
\* JSON (JSON.parse throws), or the document has no segments array
\* (segments.filter throws before anything is assigned). The catch of the
\* poll callback swallows the error.
ReadMalformedOn(h) ==
    /\ variant = "agent"
    /\ process = "running"
    /\ h.pc = "read"
    /\ handlers' = Finish(h)
    /\ events' = {"malformed"}
    /\ UNCHANGED <<variant, process, signals, lifecycle, clientVars, messages, storeVars, agentVars,
                   transcript, pollingInterval, returned, seen>>

\* readResource returns the first n segments; processNewSegments runs up to
\* its first await (the initial model request).
ReadReturnsOn(h) ==
    /\ variant = "agent"
    /\ process = "running"
    /\ h.pc = "read"
    /\ \E n \in h.from..Len(transcript) :
        LET new == NewSegments(n)
            pushed == Append(messages, UserTurn(new))
            cut == truncateMessages(pushed)
            log == RequestOn(cut)
        IN  /\ seen' = Max(seen, n)
            /\ IF new = <<>>
               THEN /\ handlers' = Finish(h)
                    /\ events' = {}
                    /\ UNCHANGED <<messages, lastProcessedTime, submitted, returned>>
               ELSE /\ lastProcessedTime' = MaxEnd(new)
                    /\ returned' = Bump(returned, new)
                    /\ messages' = log
                    /\ submitted' = log
                    /\ handlers' = Replace(h, Handler("model", 0, <<>>, 0, 1,
                                                      EndpointAcceptsRoles(log)))
                    /\ events' = (IF cut # pushed THEN {"truncated"} ELSE {})
                                  \cup (IF log # cut THEN {"repaired"} ELSE {})
    /\ UNCHANGED <<variant, process, signals, lifecycle, clientVars, storeVars, transcript, pollingInterval, nextId>>

FreshCalls(n) == [c \in 1..n |-> nextId + c - 1]

\* this.messages = [this.messages[0], this.messages[this.messages.length - 1]]
ResetLog(log) == <<log[1], log[Len(log)]>>

\* The initial request fails: the outer catch, with the reset when the error
\* text names the role sequence.
ModelFailsOn(h) ==
    /\ variant = "agent"
    /\ process = "running"
    /\ h.pc = "model"
    /\ \/ /\ ~h.rolesOk
          /\ messages' = ResetLog(messages)
          /\ events' = {"roleError", "reset"}
       \/ /\ UNCHANGED messages
          /\ events' = {}
    /\ handlers' = Finish(h)
    /\ UNCHANGED <<variant, process, signals, lifecycle, clientVars, storeVars, agentVars, transcript, pollingInterval,
                   returned, seen>>

\* The initial request returns a message without tool_calls: it is pushed and
\* the cycle ends; no speak_text call is made for its text.
ModelSpeaksOn(h) ==
    /\ variant = "agent"
    /\ process = "running"
    /\ h.pc = "model"
    /\ messages' = Append(messages, AssistantTurn(<<>>))
    /\ handlers' = Finish(h)
    /\ events' = {"final", SpeakCount(0)}
    /\ UNCHANGED <<variant, process, signals, lifecycle, clientVars, storeVars, agentVars, transcript, pollingInterval,
                   returned, seen>>

\* The initial request returns tool_calls: the message is pushed and the
\* first tool call is issued.
ModelCallsToolsOn(h) ==
    /\ variant = "agent"
    /\ process = "running"
    /\ h.pc = "model"
    /\ \E n \in 1..MaxCalls :
          /\ nextId + n - 1 <= MaxToolIds
          /\ messages' = Append(messages, AssistantTurn(FreshCalls(n)))
          /\ handlers' = Replace(h, [h EXCEPT !.pc = "tool", !.calls = FreshCalls(n), !.k = 1])
          /\ nextId' = nextId + n
    /\ events' = {}
    /\ UNCHANGED <<variant, process, signals, lifecycle, clientVars, storeVars, lastProcessedTime, submitted, transcript,
                   pollingInterval, returned, seen>>

\* Mutant: the calls of a batch are all started at once and their results
\* are pushed as they come back, the last request's first.
ToolReturnsOutOfOrder(h) ==
    /\ variant = "agent"
    /\ process = "running"
    /\ h.pc = "tool"
    /\ LET pushed == Append(messages, ToolResultTurn(h.calls[Len(h.calls) - h.k + 1]))
           log == RequestOn(pushed)
       IN  IF h.k < Len(h.calls)
           THEN /\ messages' = pushed
                /\ handlers' = Replace(h, [h EXCEPT !.k = h.k + 1])
                /\ events' = {}
                /\ UNCHANGED submitted
           ELSE /\ messages' = log
                /\ submitted' = log
                /\ handlers' = Replace(h, [h EXCEPT !.pc = "followup", !.requests = 2,
                                                   !.rolesOk = EndpointAcceptsRoles(log)])
                /\ events' = IF log # pushed THEN {"repaired"} ELSE {}
    /\ UNCHANGED <<variant, process, signals, lifecycle, clientVars, storeVars,
                   lastProcessedTime, nextId, transcript, pollingInterval,
                   returned, seen>>

\* callTool returns or throws: either way one tool message is pushed. After
\* the last call of the batch the follow-up request is issued.
ToolReturnsOn(h) ==
    /\ variant = "agent"
    /\ process = "running"
    /\ h.pc = "tool"
    /\ LET pushed == Append(messages, ToolResultTurn(h.calls[h.k]))
           log == RequestOn(pushed)
       IN  IF h.k < Len(h.calls)
           THEN /\ messages' = pushed
                /\ handlers' = Replace(h, [h EXCEPT !.k = h.k + 1])
                /\ events' = {}
                /\ UNCHANGED submitted
           ELSE /\ messages' = log
                /\ submitted' = log
                /\ handlers' = Replace(h, [h EXCEPT !.pc = "followup", !.requests = 2,
                                                   !.rolesOk = EndpointAcceptsRoles(log)])
                /\ events' = IF log # pushed THEN {"repaired"} ELSE {}
    /\ UNCHANGED <<variant, process, signals, lifecycle, clientVars, storeVars, lastProcessedTime, nextId, transcript,
                   pollingInterval, returned, seen>>

\* Mutant: a failing tool call is not caught next to the call: it reaches the
\* outer catch, which ends the cycle without a tool message.
ToolFailsPropagates(h) ==
    /\ variant = "agent"
    /\ process = "running"
    /\ h.pc = "tool"
    /\ handlers' = Finish(h)
    /\ events' = {"toolFailed"}
    /\ UNCHANGED <<variant, process, signals, lifecycle, clientVars, messages, storeVars, agentVars, transcript,
                   pollingInterval, returned, seen>>

\* callTool rejects or JSON.parse of the arguments throws: the catch around
\* the call pushes a tool message carrying { error: "Tool execution failed" }
\* and the request's id, and the loop goes on as after a result.
ToolFailsOn(h) ==
    /\ variant = "agent"
    /\ process = "running"
    /\ h.pc = "tool"
    /\ LET pushed == Append(messages, ToolResultTurn(h.calls[h.k]))
           log == RequestOn(pushed)
       IN  IF h.k < Len(h.calls)
           THEN /\ messages' = pushed
                /\ handlers' = Replace(h, [h EXCEPT !.k = h.k + 1])
                /\ events' = {"toolFailed"}
                /\ UNCHANGED submitted
           ELSE /\ messages' = log
                /\ submitted' = log
                /\ handlers' = Replace(h, [h EXCEPT !.pc = "followup", !.requests = 2,
                                                   !.rolesOk = EndpointAcceptsRoles(log)])
                /\ events' = {"toolFailed"} \cup (IF log # pushed THEN {"repaired"} ELSE {})
    /\ UNCHANGED <<variant, process, signals, lifecycle, clientVars, storeVars, lastProcessedTime, nextId, transcript,
                   pollingInterval, returned, seen>>

\* The follow-up request fails, with the role-sequence error text or with
\* another error: the inner catch only logs.
FollowUpFailsOn(h) ==
    /\ variant = "agent"
    /\ process = "running"
    /\ h.pc = "followup"
    /\ handlers' = Finish(h)
    /\ \/ ~h.rolesOk /\ events' = {"roleError"}
       \/ events' = {}
    /\ UNCHANGED <<variant, process, signals, lifecycle, clientVars, messages, storeVars, agentVars, transcript,
                   pollingInterval, returned, seen>>

\* The follow-up request returns a message without tool_calls.
FollowUpSpeaksOn(h) ==
    /\ variant = "agent"
    /\ process = "running"
    /\ h.pc = "followup"
    /\ messages' = Append(messages, AssistantTurn(<<>>))
    /\ handlers' = Finish(h)
    /\ events' = {"final", SpeakCount(0)}
    /\ UNCHANGED <<variant, process, signals, lifecycle, clientVars, storeVars, agentVars, transcript, pollingInterval,
                   returned, seen>>

FollowUpCallsToolsOn(h) ==
    /\ variant = "agent"
    /\ process = "running"
    /\ h.pc = "followup"
    /\ \E n \in 1..MaxCalls :
          /\ nextId + n - 1 <= MaxToolIds
          /\ messages' = Append(messages, AssistantTurn(FreshCalls(n)))
          /\ handlers' = Replace(h, [h EXCEPT !.pc = "tool2", !.calls = FreshCalls(n), !.k = 1])
          /\ nextId' = nextId + n
    /\ events' = {}
    /\ UNCHANGED <<variant, process, signals, lifecycle, clientVars, storeVars, lastProcessedTime, submitted, transcript,
                   pollingInterval, returned, seen>>

\* Mutant: after the follow-up batch another model request is issued.
FollowUpToolReturnsRecurse(h) ==
    /\ variant = "agent"
    /\ process = "running"
    /\ h.pc = "tool2"
    /\ LET pushed == Append(messages, ToolResultTurn(h.calls[h.k]))
       IN  IF h.k < Len(h.calls)
           THEN /\ messages' = pushed
                /\ handlers' = Replace(h, [h EXCEPT !.k = h.k + 1])
                /\ UNCHANGED submitted
           ELSE /\ messages' = RequestOn(pushed)
                /\ submitted' = messages'
                /\ handlers' = Replace(h, [h EXCEPT !.pc = "followup",
                                                   !.requests = h.requests + 1])
    /\ events' = {}
    /\ UNCHANGED <<variant, process, signals, lifecycle, clientVars, storeVars,
                   lastProcessedTime, nextId, transcript, pollingInterval,
                   returned, seen>>

\* A tool call of the follow-up batch returns or throws; after the last one
\* the cycle ends without another model request.
FollowUpToolReturnsOn(h) ==
    /\ variant = "agent"
    /\ process = "running"
    /\ h.pc = "tool2"
    /\ messages' = Append(messages, ToolResultTurn(h.calls[h.k]))
    /\ IF h.k < Len(h.calls)
       THEN /\ handlers' = Replace(h, [h EXCEPT !.k = h.k + 1])
            /\ events' = {}
       ELSE /\ handlers' = Finish(h)
            /\ events' = {"unresolved"}
    /\ UNCHANGED <<variant, process, signals, lifecycle, clientVars, storeVars, agentVars, transcript, pollingInterval,
                   returned, seen>>

\* A tool call of the follow-up batch fails: the catch around the call pushes
\* the error tool message and the loop goes on as after a result.
FollowUpToolFailsOn(h) ==
    /\ variant = "agent"
    /\ process = "running"
    /\ h.pc = "tool2"
    /\ messages' = Append(messages, ToolResultTurn(h.calls[h.k]))
    /\ IF h.k < Len(h.calls)
       THEN /\ handlers' = Replace(h, [h EXCEPT !.k = h.k + 1])
            /\ events' = {"toolFailed"}
       ELSE /\ handlers' = Finish(h)
            /\ events' = {"toolFailed", "unresolved"}
    /\ UNCHANGED <<variant, process, signals, lifecycle, clientVars, storeVars, agentVars, transcript, pollingInterval,
                   returned, seen>>

\* SIGINT: the handler registered in main starts and leaveMeeting issues the
\* farewell speak_text. Nothing tells a second signal from the first.
AgentSigint ==
    /\ variant = "agent"
    /\ process = "running"
    /\ signals < MaxSignals
    /\ Len(transcript) <= MaxInterruptedSegments
    /\ signals' = signals + 1
    /\ lifecycle' = [lifecycle EXCEPT !.farewell = @ + 1]
    /\ handlers' = handlers (+) SetToBag({[pc |-> "farewell", requests |-> 0]})
    /\ events' = {}
    /\ UNCHANGED <<variant, process, clientVars, messages, storeVars, agentVars, transcript,
                   pollingInterval, returned, seen>>

\* The SIGINT handler goes on: the farewell returns and leave_meeting is
\* issued; leave_meeting returns and cleanup clears the poll timer and issues
\* mcp.close; mcp.close returns and process.exit(0) runs.
AgentShutdownStepOn(h) ==
    /\ variant = "agent"
    /\ process = "running"
    /\ h.pc \in {"farewell", "leave", "close"}
    /\ CASE h.pc = "farewell" ->
              /\ handlers' = Replace(h, [h EXCEPT !.pc = "leave"])
              /\ lifecycle' = [lifecycle EXCEPT !.leave = @ + 1]
              /\ UNCHANGED <<process, pollingInterval>>
         [] h.pc = "leave" ->
              /\ handlers' = Replace(h, [h EXCEPT !.pc = "close"])
              /\ pollingInterval' = FALSE
              /\ lifecycle' = [lifecycle EXCEPT !.close = @ + 1]
              /\ UNCHANGED process
         [] h.pc = "close" ->
              /\ handlers' = Finish(h)
              /\ process' = "exited"
              /\ UNCHANGED <<lifecycle, pollingInterval>>
    /\ events' = {}
    /\ UNCHANGED <<variant, signals, clientVars, messages, storeVars, agentVars, transcript,
                   returned, seen>>

\* The transport reports that the connection closed: its onclose handler
\* calls cleanup, which clears the poll timer and issues mcp.close.
TransportCloses ==
    /\ variant = "agent"
    /\ process = "running"
    /\ lifecycle.onclose < MaxCloseEvents
    /\ Len(transcript) <= MaxInterruptedSegments
    /\ pollingInterval' = FALSE
    /\ lifecycle' = [lifecycle EXCEPT !.onclose = @ + 1, !.close = @ + 1]
    /\ events' = {}
    /\ UNCHANGED <<variant, process, signals, clientVars, messages, storeVars, agentVars, transcript,
                   handlers, returned, seen>>

ReadFails == \E h \in BagToSet(handlers) : ReadFailsOn(h)

ReadMalformed == \E h \in BagToSet(handlers) : ReadMalformedOn(h)

ReadReturns == \E h \in BagToSet(handlers) : ReadReturnsOn(h)

ModelFails == \E h \in BagToSet(handlers) : ModelFailsOn(h)

ModelSpeaks == \E h \in BagToSet(handlers) : ModelSpeaksOn(h)

ModelCallsTools == \E h \in BagToSet(handlers) : ModelCallsToolsOn(h)

ToolReturns == \E h \in BagToSet(handlers) : ToolReturnsOn(h)

ToolFails == \E h \in BagToSet(handlers) : ToolFailsOn(h)

FollowUpFails == \E h \in BagToSet(handlers) : FollowUpFailsOn(h)

FollowUpSpeaks == \E h \in BagToSet(handlers) : FollowUpSpeaksOn(h)

FollowUpCallsTools == \E h \in BagToSet(handlers) : FollowUpCallsToolsOn(h)

FollowUpToolReturns == \E h \in BagToSet(handlers) : FollowUpToolReturnsOn(h)

FollowUpToolFails == \E h \in BagToSet(handlers) : FollowUpToolFailsOn(h)

AgentShutdownStep == \E h \in BagToSet(handlers) : AgentShutdownStepOn(h)

NextAgent ==
    \/ Speak
    \/ MainStep
    \/ MainFails
    \/ startTranscriptMonitoring
    \/ PollTick
    \/ ReadFails
    \/ ReadMalformed
    \/ ReadReturns
    \/ ModelFails
    \/ ModelSpeaks
    \/ ModelCallsTools
    \/ ToolReturns
    \/ ToolFails
    \/ FollowUpFails
    \/ FollowUpSpeaks
    \/ FollowUpCallsTools
    \/ FollowUpToolReturns
    \/ FollowUpToolFails
    \/ AgentSigint
    \/ AgentShutdownStep
    \/ TransportCloses

SpecAgent == InitAgent /\ [][NextAgent]_vars

----------------------------------------------------------------------------
(* The debounce client (src/client.ts; src/unnamed/part_000 differs only in
   its prompt, its delays and its poll period) *)

DEBOUNCE_DELAY == 1000
MaxSteps == 10
Ticks == 2

TickMs == DEBOUNCE_DELAY \div Ticks

InitClient ==
    /\ variant = "client"
    /\ messages = <<>>
    /\ before = <<>>
    /\ op = "none"
    /\ valid = TRUE
    /\ InitIdle

Cycle(pc, step, sent) == [pc |-> pc, requests |-> step, sent |-> sent]

\* The poll callbacks suspended at readResource.
PollsInFlight ==
    BagCardinality([h \in {x \in BagToSet(handlers) : x.pc = "read"} |-> handlers[h]])

\* main reaches setInterval: the poll timer is armed (and never cleared).
ClientStartPolling ==
    /\ variant = "client"
    /\ process = "running"
    /\ ~lifecycle.started
    /\ lifecycle' = [lifecycle EXCEPT !.started = TRUE]
    /\ pollingInterval' = TRUE
    /\ events' = {}
    /\ UNCHANGED <<variant, process, signals, clientVars, messages, storeVars,
                   agentVars, transcript, handlers, returned, seen>>

\* The setInterval callback starts: readResource is issued and awaited.
ClientPollTick ==
    /\ variant = "client"
    /\ process = "running"
    /\ pollingInterval
    /\ PollsInFlight < MaxHandlers
    /\ handlers' = handlers (+) SetToBag({Handler("read", Len(transcript), <<>>, 0, 0, TRUE)})
    /\ events' = {}
    /\ UNCHANGED <<variant, process, signals, lifecycle, clientVars, messages, storeVars,
                   agentVars, transcript, pollingInterval, returned, seen>>

ClientReadFailsOn(h) ==
    /\ variant = "client"
    /\ process = "running"
    /\ h.pc = "read"
    /\ handlers' = Finish(h)
    /\ events' = {}
    /\ UNCHANGED <<variant, process, signals, lifecycle, clientVars, messages, storeVars,
                   agentVars, transcript, pollingInterval, returned, seen>>

\* readResource returns a payload that is no transcript: JSON.parse throws,
\* or contents or segments is missing and reading it throws. The catch of
\* the callback logs the error.
ClientReadMalformedOn(h) ==
    /\ variant = "client"
    /\ process = "running"
    /\ h.pc = "read"
    /\ handlers' = Finish(h)
    /\ events' = {"malformed"}
    /\ UNCHANGED <<variant, process, signals, lifecycle, clientVars, messages, storeVars,
                   agentVars, transcript, pollingInterval, returned, seen>>

\* clearTimeout(handle): the runtime drops the pending timer of that handle.
ClearTimeout(pending, handle) == {t \in pending : t.id # handle}

\* Mutant: the pending timer is not cleared before the new one is set.
RearmWithoutClear(pending, handle, n) ==
    pending \cup {[id |-> n, remaining |-> DEBOUNCE_DELAY]}

\* Mutant: the new timer is set before the clearTimeout, which then clears it.
RearmClearsNew(pending, handle, n) ==
    {t \in pending : t.id # handle /\ t.id # n}

\* if (debounceTimer) clearTimeout(debounceTimer);
\* debounceTimer = setTimeout(..., DEBOUNCE_DELAY), handle n
Rearm(pending, handle, n) ==
    (IF handle # 0 THEN ClearTimeout(pending, handle) ELSE pending)
        \cup {[id |-> n, remaining |-> DEBOUNCE_DELAY]}

\* The user turns pushed for segments.slice(lastSegmentCount) of n segments.
SegmentTurns(n) == [i \in 1..(n - lastSegmentCount) |-> UserTurn(<<lastSegmentCount + i>>)]

NewIndices(n) == [i \in 1..(n - lastSegmentCount) |-> lastSegmentCount + i]

\* readResource returns the first n segments: the rest of the callback runs
\* without another await.
ClientReadReturnsOn(h) ==
    /\ variant = "client"
    /\ process = "running"
    /\ h.pc = "read"
    /\ \E n \in h.from..Len(transcript) :
        /\ seen' = Max(seen, n)
        /\ IF n > lastSegmentCount
           THEN /\ messages' = messages \o SegmentTurns(n)
                /\ returned' = Bump(returned, NewIndices(n))
                /\ timers' = Rearm(timers, debounceTimer, n)
                /\ superseded' = IF \E t \in timers : t.id = debounceTimer /\ t.remaining > 0
                                 THEN superseded \cup {debounceTimer} ELSE superseded
                /\ debounceTimer' = n
                /\ lastSegmentCount' = n
                /\ UNCHANGED fired
           ELSE UNCHANGED <<messages, returned, clientVars>>
    /\ handlers' = Finish(h)
    /\ events' = {}
    /\ UNCHANGED <<variant, process, signals, lifecycle, storeVars, agentVars, transcript,
                   pollingInterval>>

\* Time passes: every pending timer comes one tick closer to its deadline.
TimePass ==
    /\ variant = "client"
    /\ process = "running"
    /\ \E t \in timers : t.remaining > 0
    /\ timers' = {[t EXCEPT !.remaining = Max(0, t.remaining - TickMs)] : t \in timers}
    /\ events' = {}
    /\ UNCHANGED <<variant, process, signals, lifecycle, messages, storeVars, agentVars,
                   transcript, pollingInterval, handlers, returned, seen,
                   lastSegmentCount, debounceTimer, fired, superseded>>

\* A due timer fires: onDebounceTrigger calls generateText and awaits it.
DebounceFire ==
    /\ variant = "client"
    /\ process = "running"
    /\ \E t \in timers :
          /\ t.remaining = 0
          /\ timers' = timers \ {t}
          /\ fired' = fired \cup {t.id}
    /\ handlers' = handlers (+) SetToBag({Cycle("generate", 1, Len(messages))})
    /\ events' = {"cycle"}
    /\ UNCHANGED <<variant, process, signals, lifecycle, messages, storeVars, agentVars,
                   transcript, pollingInterval, returned, seen,
                   lastSegmentCount, debounceTimer, superseded>>

\* A model call of generateText fails: the catch of onDebounceTrigger logs.
GenerateFailsOn(c) ==
    /\ variant = "client"
    /\ process = "running"
    /\ c.pc = "generate"
    /\ handlers' = Finish(c)
    /\ events' = {}
    /\ UNCHANGED <<variant, process, signals, lifecycle, clientVars, messages, storeVars,
                   agentVars, transcript, pollingInterval, returned, seen>>

\* A step returns text without tool calls: onStepFinish speaks it, generateText
\* returns and the assistant turn is pushed.
GenerateFinalOn(c) ==
    /\ variant = "client"
    /\ process = "running"
    /\ c.pc = "generate"
    /\ messages' = Append(messages, AssistantTurn(<<>>))
    /\ handlers' = Finish(c)
    /\ events' = {"final", SpeakCount(c.requests)}
    /\ UNCHANGED <<variant, process, signals, lifecycle, clientVars, storeVars, agentVars,
                   transcript, pollingInterval, returned, seen>>

\* A step returns tool calls: generateText executes them, onStepFinish speaks
\* the step's text, and unless stopWhen: stepCountIs(MaxSteps) ends the loop
\* the next model call is issued.
GenerateCallsToolsOn(c) ==
    /\ variant = "client"
    /\ process = "running"
    /\ c.pc = "generate"
    /\ IF c.requests >= MaxSteps
       THEN /\ messages' = Append(messages, AssistantTurn(<<>>))
            /\ handlers' = Finish(c)
            /\ events' = {"unresolved"}
       ELSE /\ handlers' = Replace(c, [c EXCEPT !.requests = c.requests + 1])
            /\ UNCHANGED messages
            /\ events' = {}
    /\ UNCHANGED <<variant, process, signals, lifecycle, clientVars, storeVars, agentVars,
                   transcript, pollingInterval, returned, seen>>

\* SIGINT: the pending debounce timer is cleared and leave_meeting is called.
ClientSigint ==
    /\ variant = "client"
    /\ process = "running"
    /\ signals < MaxSignals
    /\ Len(transcript) <= MaxInterruptedSegments
    /\ signals' = signals + 1
    /\ timers' = IF debounceTimer # 0 THEN ClearTimeout(timers, debounceTimer) ELSE timers
    /\ lifecycle' = [lifecycle EXCEPT !.leave = @ + 1]
    /\ handlers' = handlers (+) SetToBag({[pc |-> "leave", requests |-> 0]})
    /\ events' = {}
    /\ UNCHANGED <<variant, process, messages, storeVars, agentVars, transcript,
                   pollingInterval, returned, seen, lastSegmentCount,
                   debounceTimer, fired, superseded>>

\* leave_meeting, client.close and mcp1.close return one after the other,
\* then process.exit(0).
ClientShutdownStepOn(h) ==
    /\ variant = "client"
    /\ process = "running"
    /\ h.pc \in {"leave", "close", "closeOdoo"}
    /\ IF h.pc = "closeOdoo"
       THEN /\ process' = "exited"
            /\ handlers' = Finish(h)
            /\ UNCHANGED lifecycle
       ELSE /\ handlers' = Replace(h, [h EXCEPT !.pc = IF h.pc = "leave" THEN "close" ELSE "closeOdoo"])
            /\ lifecycle' = IF h.pc = "leave" THEN [lifecycle EXCEPT !.close = @ + 1] ELSE lifecycle
            /\ UNCHANGED process
    /\ events' = {}
    /\ UNCHANGED <<variant, signals, clientVars, messages, storeVars, agentVars,
                   transcript, pollingInterval, returned, seen>>

ClientReadFails == \E h \in BagToSet(handlers) : ClientReadFailsOn(h)

ClientReadMalformed == \E h \in BagToSet(handlers) : ClientReadMalformedOn(h)

ClientReadReturns == \E h \in BagToSet(handlers) : ClientReadReturnsOn(h)

GenerateFails == \E c \in BagToSet(handlers) : GenerateFailsOn(c)

GenerateFinal == \E c \in BagToSet(handlers) : GenerateFinalOn(c)

GenerateCallsTools == \E c \in BagToSet(handlers) : GenerateCallsToolsOn(c)

ClientShutdownStep == \E h \in BagToSet(handlers) : ClientShutdownStepOn(h)

NextClient ==
    \/ Speak
    \/ ClientStartPolling
    \/ ClientPollTick
    \/ ClientReadFails
    \/ ClientReadMalformed
    \/ ClientReadReturns
    \/ TimePass
    \/ DebounceFire
    \/ GenerateFails
    \/ GenerateFinal
    \/ GenerateCallsTools
    \/ ClientSigint
    \/ ClientShutdownStep

SpecClient == InitClient /\ [][NextClient]_vars

----------------------------------------------------------------------------
(* Specifications *)

Init == InitAgent \/ InitClient \/ InitStore

Next == NextAgent \/ NextClient \/ NextStore

\* Every entry script, and the store operations on their own.
Spec == Init /\ [][Next]_vars

\* The event loop runs a due timer and time does not stop.
FairSpecClient == SpecClient /\ WF_vars(TimePass) /\ WF_vars(DebounceFire)

----------------------------------------------------------------------------
(* The validity invariant of the log, stated directly *)

\* The indices of the window of position i: after the most recent user
\* message before i (or from the start of the log) up to i - 1.
WindowOf(log, i) ==
    {j \in 1..(i - 1) : \A k \in j..(i - 1) : log[k].role # "user"}

Requesters(log, i) ==
    {j \in WindowOf(log, i) :
        log[j].role = "assistant" /\ \E c \in DOMAIN log[j].calls : log[j].calls[c] = log[i].id}

\* Orphaned: no assistant message of the window requests the result's id.
Orphaned(log, i) == log[i].role = "tool" /\ Requesters(log, i) = {}

\* Orphaned as the data model words it: not exactly one such assistant message.
OrphanedExactlyOne(log, i) ==
    log[i].role = "tool" /\ Cardinality(Requesters(log, i)) # 1

NoOrphans(log) == \A i \in 1..Len(log) : ~Orphaned(log, i)

KeptIndices(log) == {i \in 1..Len(log) : ~Orphaned(log, i)}

\* `out` is `log` with exactly its orphaned tool results removed, order kept.
IsOrphanRemoval(log, out) ==
    /\ Len(out) = Cardinality(KeptIndices(log))
    /\ \A n \in 1..Len(out) :
          \E i \in KeptIndices(log) :
              /\ Cardinality({j \in KeptIndices(log) : j <= i}) = n
              /\ out[n] = log[i]

----------------------------------------------------------------------------
(* Observations of the running session *)

Session == variant \in {"agent", "client"}

\* Segment i ends later than every segment before it.
EndsLater(i) == \A j \in 1..(i - 1) : transcript[j].end < transcript[i].end

\* Every tool request of the list is followed by a result carrying its id.
AllPaired(list) ==
    \A i \in 1..Len(list) :
        \A c \in DOMAIN list[i].calls :
            \E j \in (i + 1)..Len(list) :
                list[j].role = "tool" /\ list[j].id = list[i].calls[c]

\* An upper bound on the steps a suspended handler still takes before it ends.
StepsLeft(h) ==
    CASE h.pc = "read" -> 2 * MaxCalls + 4
      [] h.pc = "model" -> 2 * MaxCalls + 3
      [] h.pc = "tool" -> (Len(h.calls) - h.k) + MaxCalls + 3
      [] h.pc = "followup" -> MaxCalls + 2
      [] h.pc = "tool2" -> (Len(h.calls) - h.k) + 1
      [] h.pc = "generate" -> (MaxSteps - h.requests) + 1
      [] h.pc = "farewell" -> 4
      [] h.pc = "leave" -> 3
      [] h.pc = "close" -> 2
      [] h.pc = "closeOdoo" -> 1

RECURSIVE SumStepsLeft(_, _)
SumStepsLeft(B, S) ==
    IF S = {} THEN 0
    ELSE LET h == CHOOSE x \in S : TRUE
         IN  B[h] * StepsLeft(h) + SumStepsLeft(B, S \ {h})

TotalStepsLeft(B) == SumStepsLeft(B, BagToSet(B))

SystemFirst(log) ==
    /\ Len(log) >= 1
    /\ log[1].role = "system"
    /\ \A i \in 2..Len(log) : log[i].role # "system"

----------------------------------------------------------------------------
(* C1 as claimed: every segment a processed poll contained was returned as
   new by the cursor in exactly one poll. *)
C1_EverySegmentOnce ==
    Session => \A i \in 1..seen : returned[i] = 1

(* C1 as amended: no segment is returned twice by either cursor; the
   count-based cursor returns every polled segment exactly once; the
   time-based cursor never returns a blank segment and returns exactly once
   every polled non-blank segment that ends later than all segments before. *)
C1_CursorOnce ==
    Session =>
        /\ \A i \in 1..MaxSegments : returned[i] <= 1
        /\ variant = "client" => \A i \in 1..seen : returned[i] = 1
        /\ variant = "agent" =>
              \A i \in 1..seen :
                  /\ transcript[i].blank => returned[i] = 0
                  /\ (~transcript[i].blank /\ EndsLater(i)) => returned[i] = 1

C1_Witness ==
    /\ variant = "agent"
    /\ seen = MaxSegments
    /\ \E i \in 1..seen : transcript[i].blank
    /\ \E i \in 2..seen : ~transcript[i].blank /\ EndsLater(i) /\ returned[i] = 1
    /\ \E h \in BagToSet(handlers) : h.pc # "read"

(* C2: of the debounce timers of one burst only the last fires: a timer whose
   arrival was followed by another arrival within DEBOUNCE_DELAY never fires,
   and the runtime never holds a pending debounce timer besides the one
   debounceTimer refers to. *)
C2_OneTimerPerBurst ==
    variant = "client" =>
        /\ fired \cap superseded = {}
        /\ \A t \in timers : t.id = debounceTimer

C2_Witness ==
    /\ variant = "client"
    /\ superseded # {}
    /\ debounceTimer \in fired
    /\ Cardinality(fired) = 1

(* C3: after an arrival armed the debounce timer, the timer fires unless a
   further arrival re-arms it or a shutdown clears it first; a timer that
   fired is gone, so it starts one cycle. *)
C3_LoneArrivalFires ==
    /\ \A n \in 1..MaxSegments :
          (variant = "client" /\ debounceTimer = n /\ signals = 0 /\ n \notin fired)
              ~> (n \in fired \/ debounceTimer # n \/ signals > 0)
    /\ [](\A t \in timers : t.id \notin fired)

C3_Witness ==
    /\ variant = "client"
    /\ signals = 0
    /\ debounceTimer \in fired
    /\ superseded = {}
    /\ lastSegmentCount = 1
    /\ \E c \in BagToSet(handlers) : c.pc = "generate"

(* C4: the message list of every model request of the agent holds no orphaned
   tool result. *)
C4_NoOrphanSubmitted ==
    variant = "agent" => NoOrphans(submitted)

C4_Witness ==
    /\ variant = "agent"
    /\ "repaired" \in events
    /\ submitted = messages
    /\ \E i \in 1..Len(submitted) : submitted[i].role = "tool"

(* C5: the repair step leaves a valid log unchanged; on any log it removes
   exactly the orphaned tool results, keeps the order of the rest, the result
   passes validate(), and repairing the result again changes nothing. *)
C5_RepairExact ==
    (variant = "store" /\ op = "repair") =>
        /\ IsOrphanRemoval(before, messages)
        /\ validateMessages(messages)
        /\ OrphanFilter(messages) = messages
        /\ (validateMessages(before) => messages = before)

C5_Witness ==
    /\ variant = "store" /\ op = "repair"
    /\ Len(messages) + 2 <= Len(before)
    /\ \E i \in 1..Len(messages) : messages[i].role = "tool"

(* C6 as amended: validate() returns false exactly when some tool result has
   no (at least one, rather than exactly one) assistant message requesting its
   id in its window. *)
C6_ValidateIffNoOrphan ==
    (variant = "store" /\ op = "validate") => (valid <=> NoOrphans(before))

C6_Witness ==
    /\ variant = "store" /\ op = "validate" /\ ~valid
    /\ \E i \in 1..Len(before) : before[i].role = "tool" /\ ~Orphaned(before, i)

(* C6 as claimed: validate() returns false exactly when some tool result does
   not have exactly one requesting assistant message in its window. *)
C6_ValidateIffExactlyOne ==
    (variant = "store" /\ op = "validate") =>
        (valid <=> \A i \in 1..Len(before) : ~OrphanedExactlyOne(before, i))

(* C7: truncating a log that passes validate() yields a log that passes
   validate(): no retained tool result has lost its requesting assistant. *)
C7_TruncateKeepsValid ==
    (variant = "store" /\ op = "truncate" /\ NoOrphans(before)) => NoOrphans(messages)

(* C8: the agent's log always holds exactly one system message, at its head:
   in every state of a session, and after validate, repair and truncate on
   any log that starts with it. *)
C8_SystemFirst ==
    variant \in {"agent", "store"} => SystemFirst(messages)

C8_Witness ==
    /\ variant = "agent"
    /\ "reset" \in events
    /\ Len(messages) = 2
    /\ \E h \in BagToSet(handlers) : h.pc \in {"tool", "followup"}

(* C9: every message list submitted to the model endpoint holds, for each
   tool request of its assistant messages, a later tool result with that id. *)
C9_RequestsPaired ==
    variant = "agent" => AllPaired(submitted)

(* C10: a model cycle makes at most its budget of model requests (the initial
   one and one follow-up in the agent, MaxSteps in the debounce client) and
   then ends: every step of a suspended handler leaves it strictly fewer
   steps to take, so a cycle whose calls all return or fail terminates. *)
C10_StepBudget ==
    /\ [](Session =>
            \A h \in BagToSet(handlers) :
                /\ h.requests <= (IF variant = "agent" THEN 2 ELSE MaxSteps)
                /\ StepsLeft(h) >= 1)
    /\ [][(Session /\ handlers' # handlers
                   /\ BagCardinality(handlers') <= BagCardinality(handlers))
               => TotalStepsLeft(handlers') < TotalStepsLeft(handlers)]_vars

C10_Witness ==
    /\ variant = "agent"
    /\ \E h \in BagToSet(handlers) : h.pc = "tool2" /\ h.k = Len(h.calls) /\ h.requests = 2
    /\ \E h \in BagToSet(handlers) : h.pc = "followup"

(* C11: a model cycle that ends without an error ends Final (its last model
   response requested no tool) or with a truncation notice; no cycle ends
   with its last model response requesting tools and no notice. *)
C11_EndsFinalOrNotice ==
    Session => ("unresolved" \in events => "notice" \in events)

(* C12: a cycle that ends with a model response requesting no tool has
   forwarded the produced text to speak_text exactly once: not zero times and
   not once per step. *)
C12_FinalSpokenOnce ==
    Session => ("final" \in events => "spoke1" \in events)

(* C13: when a requested tool fails in the agent, the step appends exactly
   one tool result with the failing request's id (the request made after the
   last call of the batch then repairs the log as for any request), the next
   request of the batch is still executed or the batch goes on to its
   follow-up, and neither the cycle's handler nor the poll timer is lost. *)
C13_ToolFailureContained ==
    [][("toolFailed" \in events') =>
          \E h \in BagToSet(handlers) :
              LET pushed == Append(messages, ToolResultTurn(h.calls[h.k]))
                  last == h.k = Len(h.calls)
              IN  /\ h.pc \in {"tool", "tool2"}
                  /\ IF h.pc = "tool" /\ last
                     THEN messages' = RepairedLog(pushed)
                     ELSE messages' = pushed
                  /\ ~last => handlers' = Replace(h, [h EXCEPT !.k = h.k + 1])
                  /\ (last /\ h.pc = "tool") =>
                        \E g \in BagToSet(handlers') : g.pc = "followup" /\ g.calls = h.calls
                  /\ "reset" \notin events'
                  /\ UNCHANGED <<pollingInterval, process>>]_vars

C13_Witness ==
    /\ variant = "agent"
    /\ "toolFailed" \in events
    /\ pollingInterval
    /\ messages[Len(messages)].role = "tool"
    /\ \E h \in BagToSet(handlers) :
          h.pc = "tool" /\ h.k = 2 /\ messages[Len(messages)].id = h.calls[1]

(* C14: whenever a model request of the agent (initial or follow-up) fails
   with the role-sequence error, the log is left as exactly two turns, the
   system turn and a user turn. *)
C14_RoleErrorResets ==
    (variant = "agent" /\ "roleError" \in events) =>
        /\ Len(messages) = 2
        /\ messages[1].role = "system"
        /\ messages[2].role = "user"

(* C15: the shutdown sequence runs once per session: whatever the number of
   interrupt signals and transport close events, the farewell is spoken at
   most once, leave_meeting is called at most once and the connection is
   closed at most once. *)
C15_ShutdownOnce ==
    Session => (lifecycle.farewell <= 1 /\ lifecycle.leave <= 1 /\ lifecycle.close <= 1)

(* C16: once the farewell or leave_meeting call of a shutdown has been
   issued, the poll timer and the pending debounce timer are cancelled. *)
C16_TimersCancelledFirst ==
    (Session /\ (lifecycle.farewell > 0 \/ lifecycle.leave > 0)) =>
        (~pollingInterval /\ timers = {})

\* The model cycles in flight: the handlers suspended on the model endpoint
\* or on a tool call.
CyclesInFlight ==
    BagCardinality([h \in {x \in BagToSet(handlers) :
                              x.pc \in {"model", "tool", "followup", "tool2", "generate"}}
                       |-> handlers[h]])

(* C17: at most one model cycle is in flight per session. *)
C17_SingleFlight ==
    Session => CyclesInFlight <= 1

(* C18: transcript poll handlers never overlap: at most one poll callback
   (with everything it awaits) is running at any time. *)
C18_PollsSequential ==
    /\ variant = "agent" => PollsRunning <= 1
    /\ variant = "client" => PollsInFlight <= 1

(* C19: a poll whose payload is no transcript (text that is not JSON, or a
   document without a segments array) is skipped: the cursor, the log and the
   debounce timer are unchanged, no model cycle starts, and the poll timer
   and the process are left as they were, so later polls run. *)
C19_MalformedSkipped ==
    [][("malformed" \in events') =>
          /\ UNCHANGED <<lastProcessedTime, lastSegmentCount, messages, debounceTimer, timers>>
          /\ UNCHANGED <<returned, seen, submitted>>
          /\ CyclesInFlight' = CyclesInFlight
          /\ UNCHANGED <<pollingInterval, process>>]_vars

C19_Witness ==
    /\ variant = "agent"
    /\ "malformed" \in events
    /\ lastProcessedTime > 0
    /\ Len(transcript) > seen
    /\ pollingInterval
    /\ CyclesInFlight = 1

(* C20: a model cycle in flight does not stall transcript polling: while the
   poll timer is armed the next tick can start a poll callback, and a poll
   callback waiting for its read can take the response and hand the segments
   to the cursor. *)
C20_PollingNotStalled ==
    (Session /\ CyclesInFlight > 0 /\ process = "running") =>
        /\ (variant = "agent" /\ pollingInterval /\ PollsRunning < MaxHandlers)
              => ENABLED PollTick
        /\ (variant = "client" /\ pollingInterval /\ PollsInFlight < MaxHandlers)
              => ENABLED ClientPollTick
        /\ (variant = "agent" /\ \E h \in BagToSet(handlers) : h.pc = "read")
              => ENABLED ReadReturns
        /\ (variant = "client" /\ \E h \in BagToSet(handlers) : h.pc = "read")
              => ENABLED ClientReadReturns

\* A cycle of the client is in flight, and the segments spoken since it
\* started have all been taken by the cursor and pushed to the log.
C20_Witness ==
    /\ variant = "client"
    /\ lastSegmentCount = Len(transcript)
    /\ \E c \in BagToSet(handlers) :
          /\ c.pc = "generate"
          /\ Len(messages) > c.sent
          /\ messages[Len(messages)].role = "user"

(* C24: truncateMessages leaves a log of at most 15 entries unchanged;
   a longer log becomes its system message followed by a contiguous suffix
   of the previous log, in the same order, and that suffix holds at least
   the 14 most recent turns: the cut never moves later than the naive one. *)
C24_TruncateFrame ==
    (variant = "store" /\ op = "truncate") =>
        /\ Len(before) <= TruncateLimit => messages = before
        /\ Len(before) > TruncateLimit =>
              \E cut \in 2..(Len(before) - KeepLast + 1) :
                  messages = <<before[1]>> \o SubSeq(before, cut, Len(before))

C24_Witness ==
    /\ variant = "store"
    /\ op = "truncate"
    /\ Len(before) > TruncateLimit
    /\ Len(messages) > TruncateLimit
    /\ Len(messages) < Len(before)

\* The batches of tool requests known in a state: those of the assistant
\* turns of the log and those the running tool loops iterate over.
Batches ==
    {messages[i].calls : i \in 1..Len(messages)}
        \cup {h.calls : h \in {x \in BagToSet(handlers) : x.pc \in {"tool", "tool2"}}}

\* The positions of the log that hold the result of request id.
ResultsOf(id) == {i \in 1..Len(messages) : messages[i].role = "tool" /\ messages[i].id = id}

(* C22: the tool loop of the agent runs the requests of one model response
   one at a time in the order returned: a step of the loop appends the
   result of the request in flight and only then starts the next one, the
   log never holds the result of a request that is in flight or not yet
   started, it holds at most one result per request, and the results of one
   batch stand in the log in request order. *)
C22_ToolsInRequestOrder ==
    /\ [](variant = "agent" =>
            /\ \A h \in BagToSet(handlers) :
                  h.pc \in {"tool", "tool2"} =>
                      \A j \in h.k..Len(h.calls) : ResultsOf(h.calls[j]) = {}
            /\ \A i \in 1..Len(messages) :
                  messages[i].role = "tool" => ResultsOf(messages[i].id) = {i}
            /\ \A b \in Batches :
                  \A x, y \in 1..Len(b) :
                      x < y => \A i \in ResultsOf(b[x]), j \in ResultsOf(b[y]) : i < j)
    /\ [][variant = "agent" =>
            \A h \in BagToSet(handlers) :
                (h.pc \in {"tool", "tool2"} /\ CopiesIn(h, handlers') < CopiesIn(h, handlers)) =>
                    LET pushed == Append(messages, ToolResultTurn(h.calls[h.k]))
                    IN  /\ messages' \in {pushed, RepairedLog(pushed)}
                        /\ h.k < Len(h.calls) =>
                              /\ messages' = pushed
                              /\ handlers' = Replace(h, [h EXCEPT !.k = h.k + 1])
                        /\ h.k = Len(h.calls) =>
                              \A g \in BagToSet(handlers') :
                                  g.pc \in {"tool", "tool2"} => g.calls # h.calls]_vars

C22_Witness ==
    /\ variant = "agent"
    /\ \E a, i, j \in 1..Len(messages) :
          /\ a < i /\ i + 1 < j
          /\ Len(messages[a].calls) = 2
          /\ ResultsOf(messages[a].calls[1]) = {i}
          /\ ResultsOf(messages[a].calls[2]) = {j}

(* C23: taking in new segments appends exactly one user turn, which holds
   all the segments that are new since the previous intake, in transcript
   order: k new segments add one user turn, not k. In the agent the push is
   followed by the truncation and the repair of the first request. *)
C23_OneUserTurnPerFlush ==
    [][/\ (variant = "client" /\ lastSegmentCount' > lastSegmentCount) =>
             messages' = Append(messages, UserTurn(NewIndices(lastSegmentCount')))
       /\ (variant = "agent" /\ lastProcessedTime' # lastProcessedTime) =>
             \E n \in 1..Len(transcript) :
                 /\ NewSegments(n) # <<>>
                 /\ messages' = RequestOn(truncateMessages(
                                     Append(messages, UserTurn(NewSegments(n)))))]_vars

(* C25: in the debounce client, an assistant turn is appended directly after
   the turns that were submitted to the model in the cycle that produced it:
   no user turn appended after the model request was issued stands before
   that reply in the log. *)
C25_ReplyFollowsSubmitted ==
    [][variant = "client" =>
          \A c \in BagToSet(handlers) :
              (/\ c.pc = "generate"
               /\ CopiesIn(c, handlers') < CopiesIn(c, handlers)
               /\ messages' = Append(messages, AssistantTurn(<<>>))) =>
                  \A i \in (c.sent + 1)..Len(messages) : messages[i].role # "user"]_vars

(* C26: under any interleaving of the agent's poll handlers, a tool result
   appended by the tool loop is not an orphan when it is appended (no user
   turn of another poll stands between it and the assistant turn that
   requested it), so the repair of the following request does not remove a
   result whose request is still in the log. *)
C26_AppendedResultNotOrphaned ==
    [][variant = "agent" =>
          \A h \in BagToSet(handlers) :
              (h.pc \in {"tool", "tool2"} /\ CopiesIn(h, handlers') < CopiesIn(h, handlers)) =>
                  LET pushed == Append(messages, ToolResultTurn(h.calls[h.k]))
                  IN  /\ ~Orphaned(pushed, Len(pushed))
                      /\ (\E a \in 1..Len(messages) : MatchingCall(messages[a], pushed[Len(pushed)]))
                            => \E i \in 1..Len(messages') : messages'[i] = pushed[Len(pushed)]]_vars

(* C21: the lifecycle steps of the agent happen in the stated order: connect,
   list tools, join meeting, greeting, polling started; then farewell,
   leave_meeting, polling stopped, transport closed. No transcript poll is
   issued before join_meeting has completed, and once the meeting is joined
   the transport is never closed before leave_meeting was called or while
   the poll timer is armed. *)
C21_LifecycleOrder ==
    variant = "agent" =>
        /\ lifecycle.listed => lifecycle.connected
        /\ lifecycle.joined => lifecycle.listed
        /\ lifecycle.greeted => lifecycle.joined
        /\ lifecycle.started => lifecycle.greeted
        /\ (pollingInterval \/ PollsRunning > 0) => lifecycle.joined
        /\ lifecycle.leave > 0 => lifecycle.farewell > 0
        /\ (lifecycle.joined /\ lifecycle.close > 0) =>
              (lifecycle.leave > 0 /\ ~pollingInterval)

====
